---- MODULE Spec2Model ----
(***************************************************************************)
(* slim: which directories of a Go project are impacted by a set of        *)
(* changed files.  The model follows cmd/slim/main.go: pathsImpacted       *)
(* (classification of the changed paths, then the package pass),           *)
(* removePathsWithoutBuildableGoFiles and the printing of the sorted set.  *)
(* Strings are sequences of one-character strings, so that filepath.Base,  *)
(* filepath.Dir, strings.HasPrefix/HasSuffix/Contains/Index and the        *)
(* ordering of sort.Strings are computed character by character.           *)
(***************************************************************************)
EXTENDS Integers, Sequences, FiniteSets, TLC

(***************************************************************************)
(* Bounds of the model.                                                    *)
(***************************************************************************)
MaxDiffs == 2
MaxPkgs == 2
MaxGitLines == 2

(***************************************************************************)
(* Strings.                                                                *)
(***************************************************************************)
sep == <<"/">>
dot == <<".">>
testdataPattern1 == <<"t","e","s","t","d","a","t","a">> \o sep
testdataPattern2 == sep \o <<"t","e","s","t","d","a","t","a">> \o sep
goSuffix == <<".","g","o">>
testSuffix == <<"_","t","e","s","t",".","g","o">>

\* the byte value of the characters the model uses (Go compares strings bytewise)
Ord ==
  ("." :> 46) @@ ("/" :> 47) @@ ("_" :> 95) @@ ("a" :> 97) @@ ("b" :> 98) @@
  ("c" :> 99) @@ ("d" :> 100) @@ ("e" :> 101) @@ ("f" :> 102) @@ ("g" :> 103) @@
  ("h" :> 104) @@ ("i" :> 105) @@ ("m" :> 109) @@ ("n" :> 110) @@ ("o" :> 111) @@
  ("p" :> 112) @@ ("r" :> 114) @@ ("s" :> 115) @@ ("t" :> 116) @@ ("x" :> 120) @@
  ("y" :> 121) @@ ("z" :> 122)

HasPrefix(s, prefix) ==
  /\ Len(s) >= Len(prefix)
  /\ SubSeq(s, 1, Len(prefix)) = prefix

HasSuffix(s, suffix) ==
  /\ Len(s) >= Len(suffix)
  /\ SubSeq(s, Len(s) - Len(suffix) + 1, Len(s)) = suffix

\* strings.Index: the 0-based position of the first occurrence, or -1
Index(s, substr) ==
  LET hits == {i \in 0..(Len(s) - Len(substr)) : SubSeq(s, i + 1, i + Len(substr)) = substr}
  IN IF hits = {} THEN -1 ELSE CHOOSE i \in hits : \A j \in hits : i <= j

Contains(s, substr) == Index(s, substr) >= 0

\* the 1-based position of the last separator of path, 0 when there is none
LastSep(path) ==
  LET at == {i \in 1..Len(path) : path[i] = "/"}
  IN IF at = {} THEN 0 ELSE CHOOSE i \in at : \A j \in at : j <= i

RECURSIVE TrimTrailingSeps(_)
TrimTrailingSeps(path) ==
  IF Len(path) > 0 /\ path[Len(path)] = "/"
  THEN TrimTrailingSeps(SubSeq(path, 1, Len(path) - 1))
  ELSE path

\* filepath.Clean on the paths the model produces: no ".", ".." or empty
\* elements inside, so only the trailing separator and the empty path matter
Clean(path) ==
  IF path = <<>> THEN dot
  ELSE IF TrimTrailingSeps(path) = <<>> THEN sep
  ELSE TrimTrailingSeps(path)

\* filepath.Base
Base(path) ==
  IF path = <<>> THEN dot
  ELSE LET p == TrimTrailingSeps(path)
       IN IF p = <<>> THEN sep
          ELSE SubSeq(p, LastSep(p) + 1, Len(p))

\* filepath.Dir
Dir(path) == Clean(SubSeq(path, 1, LastSep(path)))

\* a < b for Go strings
RECURSIVE Less(_, _)
Less(a, b) ==
  IF b = <<>> THEN FALSE
  ELSE IF a = <<>> THEN TRUE
  ELSE IF Ord[Head(a)] # Ord[Head(b)] THEN Ord[Head(a)] < Ord[Head(b)]
  ELSE Less(Tail(a), Tail(b))

\* filepath.Join of path elements (no element is empty)
RECURSIVE Join(_)
Join(elems) ==
  IF Len(elems) = 0 THEN <<>>
  ELSE IF Len(elems) = 1 THEN elems[1]
  ELSE elems[1] \o sep \o Join(Tail(elems))

\* the elements of a clean path: "/r/a" and "r/a" both give <<"r", "a">>
RECURSIVE Split(_)
Split(path) ==
  IF path = <<>> THEN <<>>
  ELSE IF Head(path) = "/" THEN Split(Tail(path))
  ELSE LET i == Index(path, sep)
       IN IF i < 0 THEN <<path>>
          ELSE <<SubSeq(path, 1, i)>> \o Split(SubSeq(path, i + 2, Len(path)))

\* the number of leading elements two element lists share
RECURSIVE CommonLen(_, _)
CommonLen(xs, ys) ==
  IF xs = <<>> \/ ys = <<>> \/ Head(xs) # Head(ys) THEN 0
  ELSE 1 + CommonLen(Tail(xs), Tail(ys))

\* the relative path from the elements b of the base to the elements t of the target
RelElems(b, t) ==
  LET n == CommonLen(b, t)
      ups == [i \in 1..(Len(b) - n) |-> <<".", ".">>]
      rest == SubSeq(t, n + 1, Len(t))
  IN IF ups \o rest = <<>> THEN dot ELSE Join(ups \o rest)

\* filepath.Rel for two clean absolute paths: never an error
Rel(basepath, targpath) ==
  CHOOSE rel \in {RelElems(b, t) : b \in {Split(basepath)}, t \in {Split(targpath)}} : TRUE

(***************************************************************************)
(* The names the inputs are built from.                                    *)
(***************************************************************************)
TESTDATA == <<"t","e","s","t","d","a","t","a">>
GIT == <<".","g","i","t">>
TOOLS == <<"_","t">>
A == <<"a">>
B == <<"b">>
C == <<"c">>
D == <<"d">>
X_GO == <<"x",".","g","o">>
Y_GO == <<"y",".","g","o">>
M_GO == <<"m",".","g","o">>
G_GO == <<"g",".","g","o">>
Z_GO == <<"z",".","g","o">>
Z_TEST == <<"z","_","t","e","s","t",".","g","o">>
X_TEST == <<"x","_","t","e","s","t",".","g","o">>
Y_TEST == <<"y","_","t","e","s","t",".","g","o">>
M_TEST == <<"m","_","t","e","s","t",".","g","o">>
DOT_H_GO == <<".","h",".","g","o">>
DOT_H_TEST == <<".","h","_","t","e","s","t",".","g","o">>
US_G_TEST == <<"_","g","_","t","e","s","t",".","g","o">>
X_TXT == <<"x",".","t","x","t">>
US_X_TXT == <<"_","x",".","t","x","t">>
R_MD == <<"r",".","m","d">>
CONFIG == <<"c","o","n","f","i","g">>
FMT == <<"f","m","t">>

(***************************************************************************)
(* The changed paths a change set is drawn from (the keys of diffs).       *)
(***************************************************************************)
PathUniverse ==
  { Join(<<A, X_GO>>),                    \* a/x.go
    Join(<<B, Y_TEST>>),                  \* b/y_test.go
    Join(<<B, X_TEST>>),                  \* b/x_test.go
    Join(<<TESTDATA, X_TXT>>),            \* testdata/x.txt
    Join(<<A, TESTDATA, X_TXT>>),         \* a/testdata/x.txt
    Join(<<TESTDATA, D, X_TXT>>),         \* testdata/d/x.txt
    Join(<<A, B, TESTDATA, D, X_TXT>>),   \* a/b/testdata/d/x.txt
    Join(<<A, C, TESTDATA, D, X_TXT>>),   \* a/c/testdata/d/x.txt
    Join(<<GIT, CONFIG>>),                \* .git/config
    Join(<<TOOLS, G_GO>>),                \* _t/g.go
    Join(<<A, DOT_H_GO>>),                \* a/.h.go
    Join(<<B, US_G_TEST>>),               \* b/_g_test.go
    Join(<<C, TESTDATA, D, US_X_TXT>>),   \* c/testdata/d/_x.txt
    Join(<<A, TESTDATA, Z_GO>>),          \* a/testdata/z.go
    Join(<<A, TESTDATA, D, Z_GO>>),       \* a/testdata/d/z.go
    Join(<<A, B, TESTDATA, D, Z_TEST>>),  \* a/b/testdata/d/z_test.go
    Join(<<A, TESTDATA, B, TESTDATA, C, X_TXT>>),  \* a/testdata/b/testdata/c/x.txt
    M_GO,                                 \* m.go
    R_MD }                                \* r.md

ChangeSets == {ds \in SUBSET PathUniverse : Cardinality(ds) <= MaxDiffs}

(***************************************************************************)
(* The file system: the directories ioutil.ReadDir can list, each with the *)
(* names of its entries.  A path outside the domain cannot be listed.      *)
(***************************************************************************)
FSFull ==
  (dot :> {M_GO, M_TEST, A, B, C, TESTDATA, GIT, TOOLS}) @@
  (A :> {X_GO, X_TEST, B, TESTDATA}) @@
  (Join(<<A, B>>) :> {Y_TEST, TESTDATA}) @@
  (B :> {Y_GO, Y_TEST}) @@
  (C :> {X_GO, TESTDATA}) @@
  (D :> {X_GO}) @@
  (TOOLS :> {G_GO}) @@
  (GIT :> {CONFIG})

FSNoTests ==
  (dot :> {M_GO, A, B, C, TESTDATA, R_MD}) @@
  (A :> {X_GO, B, TESTDATA}) @@
  (Join(<<A, B>>) :> {R_MD, TESTDATA}) @@
  (B :> {R_MD}) @@
  (C :> {X_GO, TESTDATA}) @@
  (D :> {}) @@
  (TOOLS :> {R_MD}) @@
  (GIT :> {CONFIG})

\* a was deleted by the change; the root holds no Go file
FSDeleted ==
  (dot :> {R_MD, B, C, TESTDATA}) @@
  (B :> {Y_TEST}) @@
  (C :> {X_GO, X_TEST, TESTDATA}) @@
  (D :> {X_GO})

\* the only test files are ones the go tool ignores
FSHidden ==
  (dot :> {DOT_H_TEST, A, B, C, TESTDATA}) @@
  (A :> {US_G_TEST, DOT_H_GO, B, TESTDATA}) @@
  (Join(<<A, B>>) :> {X_TEST, TESTDATA}) @@
  (B :> {US_G_TEST}) @@
  (C :> {DOT_H_TEST, TESTDATA}) @@
  (D :> {X_GO}) @@
  (TOOLS :> {G_GO})

\* a has a test file, a/b has none, and a fixture directory of a holds a test file
FSSparse ==
  (dot :> {M_GO, M_TEST, A}) @@
  (A :> {X_GO, X_TEST, B, TESTDATA}) @@
  (Join(<<A, B>>) :> {Y_GO, TESTDATA}) @@
  (Join(<<A, TESTDATA>>) :> {B, Z_GO}) @@
  (Join(<<A, TESTDATA, B>>) :> {X_TEST, TESTDATA})

FileSystems == {FSFull, FSNoTests, FSDeleted, FSHidden, FSSparse}

(***************************************************************************)
(* The packages "go list -json" delivers and the directories go/build      *)
(* resolves import paths to.                                               *)
(***************************************************************************)
projectDir == <<"/", "r">>
GoRoot == <<"/", "g">>

Package(dir, deps, testImports, xTestImports) ==
  [Dir |-> dir, Deps |-> deps, TestImports |-> testImports, XTestImports |-> xTestImports]

ImportDirs ==
  (Join(<<<<"r">>, A>>) :> Join(<<projectDir, A>>)) @@
  (Join(<<<<"r">>, B>>) :> Join(<<projectDir, B>>)) @@
  (Join(<<<<"r">>, C>>) :> Join(<<projectDir, C>>)) @@
  (FMT :> Join(<<GoRoot, FMT>>))

IP_A == Join(<<<<"r">>, A>>)
IP_B == Join(<<<<"r">>, B>>)
IP_MISSING == Join(<<<<"r">>, <<"z">>>>)

PackageUniverse ==
  << Package(Join(<<projectDir, A>>), <<FMT>>, <<>>, <<>>),
     Package(Join(<<projectDir, B>>), <<FMT, IP_A>>, <<>>, <<>>),
     Package(Join(<<projectDir, C>>), <<FMT>>, <<IP_A>>, <<IP_MISSING>>),
     Package(Join(<<projectDir, D>>), <<>>, <<FMT>>, <<IP_A, IP_B>>),
     Package(Join(<<projectDir, A, B>>), <<IP_A, IP_MISSING>>, <<>>, <<>>),
     Package(projectDir, <<IP_B>>, <<IP_MISSING>>, <<>>) >>

\* the package lists of at most MaxPkgs distinct packages, as the lister
\* delivers them the first time; RunAgain delivers them in every other order
PackageLists ==
  UNION { { [i \in 1..n |-> PackageUniverse[ps[i]]] :
              ps \in {qs \in [1..n -> 1..Len(PackageUniverse)] :
                        \A i, j \in 1..n : i < j => qs[i] < qs[j]} }
          : n \in 0..MaxPkgs }

\* the lines check prints for the error of ioutil.ReadDir and of build.Import
OpenError(path) == <<"o", "p", "e", "n", " ">> \o path
ImportError(dep) == <<"c", "a", "n", "n", "o", "t", " ", "f", "i", "n", "d", " ">> \o dep
NoError == <<>>

(***************************************************************************)
(* git: the comparison given with -diff, what "git diff --name-only" and   *)
(* "git status --porcelain" print, and the parsing of their output.        *)
(***************************************************************************)
NL == "\n"
HEAD == <<"H", "E", "A", "D">>
Whitespace == {" ", "\t", NL, "\r"}

\* strings.TrimSpace
RECURSIVE TrimLeft(_)
TrimLeft(str) ==
  IF str # <<>> /\ Head(str) \in Whitespace THEN TrimLeft(Tail(str)) ELSE str

RECURSIVE TrimRight(_)
TrimRight(str) ==
  IF str # <<>> /\ str[Len(str)] \in Whitespace
  THEN TrimRight(SubSeq(str, 1, Len(str) - 1))
  ELSE str

TrimSpace(str) == TrimRight(TrimLeft(str))

\* strings.ContainsAny
ContainsAny(str, chars) == \E i \in 1..Len(str) : str[i] \in chars

\* bytes.Split(output, []byte{'\n'})
RECURSIVE SplitLines(_)
SplitLines(output) ==
  LET i == Index(output, <<NL>>)
  IN IF i < 0 THEN <<output>>
     ELSE <<SubSeq(output, 1, i)>> \o SplitLines(SubSeq(output, i + 2, Len(output)))

\* the bytes git prints for a list of lines: every line ends in a newline
RECURSIVE Unlines(_)
Unlines(lines) ==
  IF lines = <<>> THEN <<>>
  ELSE Head(lines) \o <<NL>> \o Unlines(Tail(lines))

\* the values of the -diff flag
Comparisons ==
  { <<>>,                                   \* ""
    <<" ">>,                                \* " "
    HEAD,                                   \* "HEAD"
    <<" ">> \o HEAD \o <<NL>>,              \* " HEAD\n"
    HEAD \o <<"~", "2">>,                   \* "HEAD~2"
    <<"v", "1", ".", "0">>,                 \* "v1.0", a tag
    <<"a", " ", "b">>,                      \* "a b"
    <<"a", ".", ".", "b">>,                 \* "a..b"
    <<"a", ".", ".", ".", "b">>,            \* "a...b"
    <<"b", "a", "d">> }                     \* "bad", a revision git does not know

BadRevision == <<"b", "a", "d">>

\* the names git reports
GitNames == {Join(<<A, X_GO>>), Join(<<C, M_GO>>)}

\* the lines of "git status --short --untracked-files=all --porcelain"
StatusLines ==
  { <<"?", "?", " ">> \o Join(<<B, Y_TEST>>),                         \* ?? b/y_test.go
    <<"?", "?", " ">> \o R_MD,                                        \* ?? r.md
    <<" ", "M", " ">> \o Join(<<A, X_GO>>),                           \*  M a/x.go
    <<"R", " ", " ">> \o M_GO \o <<" ", "-", ">", " ">> \o Join(<<C, M_GO>>) }  \* R  m.go -> c/m.go

SeqsUpTo(set, n) == UNION {[1..k -> set] : k \in 0..n}

\* a repository: the names "git diff --name-only" prints against HEAD and for
\* any other comparison it knows, and the lines "git status" prints
Repos ==
  [diffHead : SeqsUpTo(GitNames, MaxGitLines),
   diffOther : SeqsUpTo(GitNames, MaxGitLines),
   status : SeqsUpTo(StatusLines, MaxGitLines)]

EmptyRepo == [diffHead |-> <<>>, diffOther |-> <<>>, status |-> <<>>]

(***************************************************************************)
(* The state of one invocation of slim.                                    *)
(*   diffs          the change set handed to pathsImpacted                 *)
(*   packages       the package list handed to pathsImpacted               *)
(*   fs             the file system ioutil.ReadDir reads                   *)
(*   todo           the keys of diffs the range loop has not yet produced  *)
(*   impactedPaths, alteredPaths   the two sets of pathsImpacted           *)
(*   pkgIdx         the position of the package loop                       *)
(*   returned       the set pathsImpacted returned to main                 *)
(*   rtodo          the keys the range loop of the post-pass has not yet   *)
(*                  produced                                               *)
(*   stdout         the lines printed                                      *)
(*   exitCode       -1 while running, then the exit status                 *)
(*   pc             "pathsImpacted", "removePaths" or "exit"               *)
(*   run, first     a second invocation on the same tree follows the       *)
(*                  first; first keeps what the first one computed         *)
(* and of gitAllDiffs, which main calls first:                             *)
(*   commitComparison  the value of the -diff flag                         *)
(*   repo           what git prints                                        *)
(*   gitDiffs       the set gitAllDiffs builds and returns                 *)
(*   shellCalls     the git commands run so far                            *)
(*   gitPc          "gitAllDiffs", "untracked", "returned" or "exit"      *)
(***************************************************************************)
VARIABLES diffs, packages, fs, todo, impactedPaths, alteredPaths, pkgIdx,
          returned, rtodo, stdout, exitCode, pc, run, first,
          commitComparison, repo, gitDiffs, shellCalls, gitPc

gitVars == <<commitComparison, repo, gitDiffs, shellCalls, gitPc>>

slimVars == <<diffs, packages, fs, todo, impactedPaths, alteredPaths, pkgIdx,
              returned, rtodo, stdout, exitCode, pc, run, first>>

vars == <<diffs, packages, fs, todo, impactedPaths, alteredPaths, pkgIdx,
          returned, rtodo, stdout, exitCode, pc, run, first,
          commitComparison, repo, gitDiffs, shellCalls, gitPc>>

inputs == <<diffs, packages, fs>>

\* ioutil.ReadDir
ReadDir(path) ==
  IF path \in DOMAIN fs THEN [err |-> FALSE, infos |-> fs[path]]
  ELSE [err |-> TRUE, infos |-> {}]

\* build.Import(dep, projectDir, build.FindOnly)
Import(dep) ==
  IF dep \in DOMAIN ImportDirs THEN [err |-> FALSE, Dir |-> ImportDirs[dep]]
  ELSE [err |-> TRUE, Dir |-> <<>>]

\* every entry with the test suffix counts, whatever its first character
hasTestFilesAnyPrefix(path) ==
  LET r == ReadDir(path)
  IN [err |-> IF r.err THEN OpenError(path) ELSE NoError,
      val |-> \E name \in r.infos : HasSuffix(name, testSuffix)]

\* hasTestFiles: check(err) exits the program when the directory cannot be listed
hasTestFiles(path) ==
  LET r == ReadDir(path)
  IN [err |-> IF r.err THEN OpenError(path) ELSE NoError,
      val |-> \E name \in r.infos :
                 /\ HasSuffix(name, testSuffix)
                 /\ name[1] # "."
                 /\ name[1] # "_"]

\* only the "." files are ignored
IgnoredDotOnly(basename) ==
  HasPrefix(basename, <<".">>)

\* cases 1 and 2 of the switch: the files the go tool ignores
IgnoredByGoTool(basename) ==
  \/ HasPrefix(basename, <<".">>)
  \/ HasPrefix(basename, <<"_">>)

\* a test file taken for a regular source file
MarkTestFileAsAltered(dir, sets) ==
  [sets EXCEPT !.impacted = @ \cup {dir}, !.altered = @ \cup {dir}]

\* case 3 of the switch: a test file
MarkTestFile(dir, sets) ==
  [sets EXCEPT !.impacted = @ \cup {dir}]

\* case 4 of the switch: a file under the testdata directory of the root
MarkRootTestdata(sets) ==
  LET h == hasTestFiles(dot)
  IN IF h.err # NoError THEN [sets EXCEPT !.err = h.err]
     ELSE IF h.val THEN [sets EXCEPT !.impacted = @ \cup {dot}]
     ELSE sets

\* the start of the walk taken at the last "/testdata/" of dir
WalkStartAtLastTestdata(dir) ==
  LET hits == {i \in 0..(Len(dir) - Len(testdataPattern2)) :
                 SubSeq(dir, i + 1, i + Len(testdataPattern2)) = testdataPattern2}
  IN SubSeq(dir, 1, CHOOSE i \in hits : \A j \in hits : j <= i)

\* case 5 of the switch: parentDir := dir[:strings.Index(dir, testdataPattern2)]
WalkStart(dir) == SubSeq(dir, 1, Index(dir, testdataPattern2))

\* case 5 of the switch: the loop over the ancestors of a testdata directory;
\* an iteration hands the next one filepath.Dir(parentDir) and the sets it
\* leaves, both as computed values
RECURSIVE MarkAncestors(_, _)
MarkAncestors(parentDir, sets) ==
  IF parentDir = dot THEN sets
  ELSE LET h == hasTestFiles(parentDir)
       IN IF h.err # NoError THEN [sets EXCEPT !.err = h.err]
          ELSE CHOOSE after \in
                 {MarkAncestors(next, marked) :
                    next \in {Dir(parentDir)},
                    marked \in {IF h.val THEN [sets EXCEPT !.impacted = @ \cup {parentDir}]
                                          ELSE sets}} : TRUE

\* a regular source file is recorded only when its directory can be listed
MarkSourceFileIfListable(dir, sets) ==
  IF ReadDir(dir).err THEN sets
  ELSE [sets EXCEPT !.impacted = @ \cup {dir}, !.altered = @ \cup {dir}]

\* a regular source file recorded as altered only
MarkSourceFileAlteredOnly(dir, sets) ==
  [sets EXCEPT !.altered = @ \cup {dir}]

\* case 6 of the switch: a regular source file
MarkSourceFile(dir, sets) ==
  [sets EXCEPT !.impacted = @ \cup {dir}, !.altered = @ \cup {dir}]

\* the switch with the testdata cases ahead of the test file case
ClassifyFixtureFirst(file, sets) ==
  CHOOSE after \in
    {IF IgnoredByGoTool(basename) THEN sets
      ELSE IF HasPrefix(dir, testdataPattern1) THEN MarkRootTestdata(sets)
      ELSE IF Contains(dir, testdataPattern2)
           THEN CHOOSE walked \in {MarkAncestors(parentDir, sets) :
                                     parentDir \in {WalkStart(dir)}} : TRUE
      ELSE IF HasSuffix(basename, testSuffix) THEN MarkTestFile(dir, sets)
      ELSE IF HasSuffix(basename, goSuffix) THEN MarkSourceFile(dir, sets)
      ELSE sets :
        basename \in {Base(file)}, dir \in {Dir(file)}} : TRUE

\* the body of the loop over diffs for one file
Classify(file, sets) ==
  CHOOSE after \in
    {IF IgnoredByGoTool(basename) THEN sets
      ELSE IF HasSuffix(basename, testSuffix) THEN MarkTestFile(dir, sets)
      ELSE IF HasPrefix(dir, testdataPattern1) THEN MarkRootTestdata(sets)
      ELSE IF Contains(dir, testdataPattern2)
           THEN CHOOSE walked \in {MarkAncestors(parentDir, sets) :
                                     parentDir \in {WalkStart(dir)}} : TRUE
      ELSE IF HasSuffix(basename, goSuffix) THEN MarkSourceFile(dir, sets)
      ELSE sets :
        basename \in {Base(file)}, dir \in {Dir(file)}} : TRUE

\* the loop over a dependency list with the error of build.Import dropped
RECURSIVE CheckDepsSkipUnresolved(_, _)
CheckDepsSkipUnresolved(deps, sets) ==
  IF deps = <<>> THEN [outcome |-> "next", sets |-> sets]
  ELSE LET buildPkg == Import(Head(deps))
           depRelativePath == Rel(projectDir, buildPkg.Dir)
       IN IF buildPkg.err
          THEN CHOOSE result \in
                 {CheckDepsSkipUnresolved(rest, sets) : rest \in {Tail(deps)}} : TRUE
          ELSE CHOOSE result \in
                 {IF path \in sets.altered
                  THEN [outcome |-> "return",
                        sets |-> [sets EXCEPT !.impacted = @ \cup {path}]]
                  ELSE CheckDepsSkipUnresolved(rest, sets) :
                    path \in {depRelativePath}, rest \in {Tail(deps)}} : TRUE

\* one of the three loops over a dependency list of a package:
\* "return" leaves the closure, "next" falls through to the following loop
RECURSIVE CheckDeps(_, _)
CheckDeps(deps, sets) ==
  IF deps = <<>> THEN [outcome |-> "next", sets |-> sets]
  ELSE LET buildPkg == Import(Head(deps))
           depRelativePath == Rel(projectDir, buildPkg.Dir)
       IN IF buildPkg.err THEN [outcome |-> "fatal", sets |-> [sets EXCEPT !.err = ImportError(Head(deps))]]
          ELSE CHOOSE result \in
                 {IF path \in sets.altered
                  THEN [outcome |-> "return",
                        sets |-> [sets EXCEPT !.impacted = @ \cup {path}]]
                  ELSE CheckDeps(rest, sets) :
                    path \in {depRelativePath}, rest \in {Tail(deps)}} : TRUE

\* the dependency lists are examined before the package's own directory
CheckPackageDepsFirst(pkg, sets) ==
  LET pkgRelativePath == Rel(projectDir, pkg.Dir)
      r1 == CheckDeps(pkg.Deps, sets)
      r2 == CheckDeps(pkg.TestImports, sets)
      r3 == CheckDeps(pkg.XTestImports, sets)
  IN IF r1.outcome # "next" THEN r1.sets
     ELSE IF r2.outcome # "next" THEN r2.sets
     ELSE IF r3.outcome # "next" THEN r3.sets
     ELSE IF pkgRelativePath \in sets.altered
          THEN [sets EXCEPT !.impacted = @ \cup {pkgRelativePath}]
     ELSE sets

\* a package found to depend on an altered directory is marked impacted itself
CheckPackageMarksDependent(pkg, sets) ==
  LET pkgRelativePath == Rel(projectDir, pkg.Dir)
      r1 == CheckDeps(pkg.Deps, sets)
      r2 == CheckDeps(pkg.TestImports, sets)
      r3 == CheckDeps(pkg.XTestImports, sets)
      found(r) == [r.sets EXCEPT !.impacted = IF r.outcome = "return"
                                               THEN @ \cup {pkgRelativePath} ELSE @]
  IN IF pkgRelativePath \in sets.altered
     THEN [sets EXCEPT !.impacted = @ \cup {pkgRelativePath}]
     ELSE IF r1.outcome # "next" THEN found(r1)
     ELSE IF r2.outcome # "next" THEN found(r2)
     ELSE found(r3)

\* a package found to depend on an altered directory is recorded as altered itself
CheckPackagePropagating(pkg, sets) ==
  LET pkgRelativePath == Rel(projectDir, pkg.Dir)
      r1 == CheckDeps(pkg.Deps, sets)
      r2 == CheckDeps(pkg.TestImports, sets)
      r3 == CheckDeps(pkg.XTestImports, sets)
      found(r) == [r.sets EXCEPT !.altered = IF r.outcome = "return"
                                              THEN @ \cup {pkgRelativePath} ELSE @]
  IN IF pkgRelativePath \in sets.altered
     THEN [sets EXCEPT !.impacted = @ \cup {pkgRelativePath}]
     ELSE IF r1.outcome # "next" THEN found(r1)
     ELSE IF r2.outcome # "next" THEN found(r2)
     ELSE found(r3)

\* the closure called for one package
CheckPackage(pkg, sets) ==
  LET pkgRelativePath == Rel(projectDir, pkg.Dir)
      r1 == CheckDeps(pkg.Deps, sets)
      r2 == CheckDeps(pkg.TestImports, sets)
      r3 == CheckDeps(pkg.XTestImports, sets)
  IN IF pkgRelativePath \in sets.altered
     THEN [sets EXCEPT !.impacted = @ \cup {pkgRelativePath}]
     ELSE IF r1.outcome # "next" THEN r1.sets
     ELSE IF r2.outcome # "next" THEN r2.sets
     ELSE r3.sets

\* only the source files the go tool builds set the flag
hasUnignoredSourceFiles(infos) ==
  \E name \in infos :
     /\ HasSuffix(name, goSuffix)
     /\ ~HasSuffix(name, testSuffix)
     /\ ~IgnoredByGoTool(name)

\* the flag of the post-pass
hasBuildableGoFiles(infos) ==
  \E name \in infos : HasSuffix(name, goSuffix)

\* only the directories that cannot be listed are removed
RemoveUnlistable(path, paths) ==
  IF ReadDir(path).err THEN paths \ {path} ELSE paths

\* the body of the loop of removePathsWithoutBuildableGoFiles for one path
RemoveUnbuildable(path, paths) ==
  LET r == ReadDir(path)
      afterErr == IF r.err THEN paths \ {path} ELSE paths
  IN IF ~hasBuildableGoFiles(r.infos) THEN afterErr \ {path} ELSE afterErr

\* sort.Strings: insertion of each string at its place
RECURSIVE SortStrings(_)
Insert(s, sorted) ==
  LET before == SelectSeq(sorted, LAMBDA t : ~Less(s, t))
      after == SelectSeq(sorted, LAMBDA t : Less(s, t))
  IN before \o <<s>> \o after

SortStrings(slice) ==
  IF slice = <<>> THEN <<>>
  ELSE Insert(Head(slice), SortStrings(Tail(slice)))

\* the orders in which a range loop can produce the keys of a map
KeyOrders(set) ==
  {order \in [1..Cardinality(set) -> set] :
     \A i, j \in 1..Cardinality(set) : order[i] = order[j] => i = j}

\* the slice is left in the order of the range loop
UnsortedSlice(order) == order

\* StringSet.SortedSlice, for one order of the range loop
SortedSlice(order) == SortStrings(order)

\* the lines main prints for a sorted slice
PrintLines(slice) == [i \in 1..Len(slice) |-> dot \o sep \o slice[i]]


(***************************************************************************)
(* The invocation.                                                         *)
(***************************************************************************)
NoRun == [diffs |-> {}, returned |-> {}, altered |-> {}, stdout |-> <<>>, exitCode |-> -1]

Init ==
  /\ diffs \in ChangeSets
  /\ packages \in PackageLists
  /\ fs \in FileSystems
  /\ todo = diffs
  /\ impactedPaths = {}
  /\ alteredPaths = {}
  /\ pkgIdx = 1
  /\ returned = {}
  /\ rtodo = {}
  /\ stdout = <<>>
  /\ exitCode = -1
  /\ pc = "pathsImpacted"
  /\ run = "first"
  /\ first = NoRun
  /\ commitComparison = HEAD
  /\ repo = EmptyRepo
  /\ gitDiffs = diffs
  /\ shellCalls = <<>>
  /\ gitPc = "returned"

CurrentSets == [impacted |-> impactedPaths, altered |-> alteredPaths, err |-> NoError]

\* check(err) with an error: the message is printed and the program exits with 1
Fatal(err) ==
  /\ stdout' = Append(stdout, err)
  /\ exitCode' = 1
  /\ pc' = "exit"

\* what a step of pathsImpacted leaves of the two sets
Continue(sets) ==
  /\ impactedPaths' = sets.impacted
  /\ alteredPaths' = sets.altered
  /\ IF sets.err # NoError THEN Fatal(sets.err) ELSE UNCHANGED <<stdout, exitCode, pc>>

\* one iteration of "for file := range diffs"
ClassifyFile ==
  /\ pc = "pathsImpacted"
  /\ \E file \in todo :
       /\ todo' = todo \ {file}
       /\ \E sets \in {Classify(file, CurrentSets)} : Continue(sets)
  /\ UNCHANGED <<inputs, pkgIdx, returned, rtodo, run, first>>
  /\ UNCHANGED gitVars

\* the loop over packages without its advance to the next package
ExaminePackageAgain ==
  /\ pc = "pathsImpacted"
  /\ todo = {}
  /\ pkgIdx <= Len(packages)
  /\ pkgIdx' = pkgIdx
  /\ \E sets \in {CheckPackage(packages[pkgIdx], CurrentSets)} : Continue(sets)
  /\ UNCHANGED <<inputs, todo, returned, rtodo, run, first>>
  /\ UNCHANGED gitVars

\* one iteration of "for _, pkg := range packages"
ExaminePackage ==
  /\ pc = "pathsImpacted"
  /\ todo = {}
  /\ pkgIdx <= Len(packages)
  /\ pkgIdx' = pkgIdx + 1
  /\ \E sets \in {CheckPackage(packages[pkgIdx], CurrentSets)} : Continue(sets)
  /\ UNCHANGED <<inputs, todo, returned, rtodo, run, first>>
  /\ UNCHANGED gitVars

\* "return impactedPaths", and main's call of the post-pass on the returned set
ReturnImpacted ==
  /\ pc = "pathsImpacted"
  /\ todo = {}
  /\ pkgIdx > Len(packages)
  /\ returned' = impactedPaths
  /\ rtodo' = impactedPaths
  /\ pc' = "removePaths"
  /\ UNCHANGED <<inputs, todo, impactedPaths, alteredPaths, pkgIdx, stdout, exitCode, run, first>>
  /\ UNCHANGED gitVars

\* one iteration of "for path := range paths" of the post-pass
RemovePath ==
  /\ pc = "removePaths"
  /\ \E path \in rtodo :
       /\ rtodo' = rtodo \ {path}
       /\ impactedPaths' = RemoveUnbuildable(path, impactedPaths)
  /\ UNCHANGED <<inputs, todo, alteredPaths, pkgIdx, returned, stdout, exitCode, pc, run, first>>
  /\ UNCHANGED gitVars

\* the final loop of main over impacted.SortedSlice(), then the normal exit
PrintImpacted ==
  /\ pc = "removePaths"
  /\ rtodo = {}
  /\ \E order \in KeyOrders(impactedPaths) :
       stdout' = stdout \o PrintLines(SortedSlice(order))
  /\ exitCode' = 0
  /\ pc' = "exit"
  /\ UNCHANGED <<inputs, todo, impactedPaths, alteredPaths, pkgIdx, returned, rtodo, run, first>>
  /\ UNCHANGED gitVars

\* the ignored paths that may be left out of the change set of the second run
Droppable == {{}} \cup {{file} : file \in {f \in diffs : Base(f)[1] \in {".", "_"}}}

\* slim is run again on the unchanged tree; the lister may deliver the
\* packages in another order, and the change set may lack one ignored path
RunAgain ==
  /\ pc = "exit"
  /\ run = "first"
  /\ first' = [diffs |-> diffs, returned |-> returned, altered |-> alteredPaths,
               stdout |-> stdout, exitCode |-> exitCode]
  /\ run' = "second"
  /\ \E drop \in Droppable :
       /\ diffs' = diffs \ drop
       /\ todo' = diffs \ drop
  /\ \E perm \in KeyOrders(1..Len(packages)) :
       packages' = [i \in 1..Len(packages) |-> packages[perm[i]]]
  /\ impactedPaths' = {}
  /\ alteredPaths' = {}
  /\ pkgIdx' = 1
  /\ returned' = {}
  /\ rtodo' = {}
  /\ stdout' = <<>>
  /\ exitCode' = -1
  /\ pc' = "pathsImpacted"
  /\ gitDiffs' = diffs'
  /\ UNCHANGED <<fs, commitComparison, repo, shellCalls, gitPc>>

\* one invocation
Next ==
  \/ ClassifyFile
  \/ ExaminePackage
  \/ ReturnImpacted
  \/ RemovePath
  \/ PrintImpacted

Spec == Init /\ [][Next]_vars

\* one invocation followed by a second one on the same tree
NextTwice ==
  \/ ClassifyFile
  \/ ExaminePackage
  \/ ReturnImpacted
  \/ RemovePath
  \/ PrintImpacted
  \/ RunAgain

SpecTwice == Init /\ [][NextTwice]_vars

\* main before its call of pathsImpacted: the change set and the package
\* list are not computed yet
InitMain ==
  /\ diffs = {}
  /\ packages = <<>>
  /\ fs \in FileSystems
  /\ todo = {}
  /\ impactedPaths = {}
  /\ alteredPaths = {}
  /\ pkgIdx = 1
  /\ returned = {}
  /\ rtodo = {}
  /\ stdout = <<>>
  /\ exitCode = -1
  /\ pc = "main"
  /\ run = "first"
  /\ first = NoRun
  /\ commitComparison = HEAD
  /\ repo = EmptyRepo
  /\ gitDiffs = {}
  /\ shellCalls = <<>>
  /\ gitPc = "returned"

\* main receives the change set and the package list and calls pathsImpacted
CallPathsImpacted ==
  /\ pc = "main"
  /\ diffs' \in ChangeSets
  /\ packages' \in PackageLists
  /\ todo' = diffs'
  /\ gitDiffs' = diffs'
  /\ pc' = "pathsImpacted"
  /\ UNCHANGED <<fs, impactedPaths, alteredPaths, pkgIdx, returned, rtodo,
                 stdout, exitCode, run, first>>
  /\ UNCHANGED <<commitComparison, repo, shellCalls, gitPc>>

NextMain ==
  \/ CallPathsImpacted
  \/ ClassifyFile
  \/ ExaminePackage
  \/ ReturnImpacted
  \/ RemovePath
  \/ PrintImpacted

\* the process runs without interruption: a loop that has an iteration left
\* takes it, and main goes on to the next call
Fairness == WF_vars(NextMain)

SpecFair == InitMain /\ [][NextMain]_vars /\ Fairness

(***************************************************************************)
(* Vocabulary of the properties.                                           *)
(***************************************************************************)
\* pathsImpacted has returned its set to main
Returned == pc = "removePaths" \/ (pc = "exit" /\ exitCode = 0)

\* the post-pass has examined every path
PostPassDone == (pc = "removePaths" /\ rtodo = {}) \/ (pc = "exit" /\ exitCode = 0)

StartsWithDotOrUnderscore(name) == name # <<>> /\ name[1] \in {".", "_"}

\* a changed test file the go tool does not ignore
IsTestFile(file) ==
  /\ HasSuffix(Base(file), testSuffix)
  /\ ~StartsWithDotOrUnderscore(Base(file))

\* a changed regular source file the go tool does not ignore
IsSourceFile(file) ==
  /\ HasSuffix(Base(file), goSuffix)
  /\ ~HasSuffix(Base(file), testSuffix)
  /\ ~StartsWithDotOrUnderscore(Base(file))

\* the import paths of the three dependency lists of a package
AllDeps(pkg) ==
  {pkg.Deps[i] : i \in 1..Len(pkg.Deps)} \cup
  {pkg.TestImports[i] : i \in 1..Len(pkg.TestImports)} \cup
  {pkg.XTestImports[i] : i \in 1..Len(pkg.XTestImports)}

\* an import path of the directory dir occurs in a dependency list of pkg
DependsOn(pkg, dir) ==
  \E dep \in AllDeps(pkg) :
     /\ dep \in DOMAIN ImportDirs
     /\ Rel(projectDir, ImportDirs[dep]) = dir

\* the directory has an entry that is a test file the go tool does not ignore
DirHasTestFile(dir) ==
  /\ dir \in DOMAIN fs
  /\ \E name \in fs[dir] : HasSuffix(name, testSuffix) /\ ~StartsWithDotOrUnderscore(name)

\* a path element of the directory starts with "." or "_"
HiddenDir(dir) ==
  \E i \in 1..Len(Split(dir)) : StartsWithDotOrUnderscore(Split(dir)[i])

(***************************************************************************)
(* C1: when pathsImpacted has returned, the directory of every package     *)
(* that lists, in Deps, TestImports or XTestImports, the import path of a  *)
(* directory with a changed regular source file is in the returned set.    *)
(* The code adds the directory of the dependency instead of the directory  *)
(* of the package, so this does not hold.                                  *)
(***************************************************************************)
C1_DependentsImpacted ==
  Returned =>
    \A i \in 1..Len(packages) : \A file \in diffs :
       (IsSourceFile(file) /\ DependsOn(packages[i], Dir(file)))
         => Rel(projectDir, packages[i].Dir) \in returned

(***************************************************************************)
(* C2: at every point of pathsImpacted, and in the set it returns, the     *)
(* altered set is a subset of the impacted set.                            *)
(***************************************************************************)
C2_AlteredSubsetImpacted ==
  /\ (pc = "pathsImpacted" \/ exitCode = 1) => alteredPaths \subseteq impactedPaths
  /\ Returned => alteredPaths \subseteq returned

\* a source file was classified and a package examined
C2_Witness ==
  /\ pc = "pathsImpacted"
  /\ alteredPaths # {}
  /\ pkgIdx > 1
  /\ Cardinality(impactedPaths) > Cardinality(alteredPaths)

(***************************************************************************)
(* C3: when every changed path is a test file (not "."/"_"-prefixed) of    *)
(* one directory D, the altered set stays empty and the impacted set, at   *)
(* every point and as returned, holds no directory other than D.           *)
(***************************************************************************)
OnlyTestFilesIn(dir) ==
  /\ diffs # {}
  /\ \A file \in diffs : IsTestFile(file) /\ Dir(file) = dir

C3_TestOnlyChangeStaysLocal ==
  \A file \in diffs :
     OnlyTestFilesIn(Dir(file)) =>
        /\ alteredPaths = {}
        /\ impactedPaths \subseteq {Dir(file)}
        /\ returned \subseteq {Dir(file)}

\* the test files of b changed, a package that depends on b was examined
C3_Witness ==
  /\ OnlyTestFilesIn(B)
  /\ Returned
  /\ returned = {B}
  /\ \E i \in 1..Len(packages) : DependsOn(packages[i], B)

(***************************************************************************)
(* C4: with the change set {testdata/x.txt}, the root "." is in the        *)
(* returned set if and only if the root has a test file.  The code tests   *)
(* the directory "testdata" against the prefix "testdata/", which it does  *)
(* not have, so the root is never marked.                                  *)
(***************************************************************************)
C4_RootFixtureMarksRoot ==
  (diffs = {Join(<<TESTDATA, X_TXT>>)} /\ Returned) =>
     (dot \in returned <=> DirHasTestFile(dot))

(***************************************************************************)
(* C5: with the change set {a/testdata/x.txt}, the returned set is {a}     *)
(* when a has a test file and {} otherwise.  The code tests the directory  *)
(* "a/testdata" for the substring "/testdata/", which it does not contain, *)
(* so a is never marked.                                                   *)
(***************************************************************************)
C5_FixtureMarksParent ==
  (diffs = {Join(<<A, TESTDATA, X_TXT>>)} /\ Returned) =>
     returned = (IF DirHasTestFile(A) THEN {A} ELSE {})

(***************************************************************************)
(* C6: a changed path whose basename starts with "." or "_" contributes    *)
(* nothing: the run on the change set without that path returns the same   *)
(* impacted set, has the same altered set and ends the same way.           *)
(***************************************************************************)
LacksAnIgnoredPath == run = "second" /\ diffs # first.diffs

C6_IgnoredPathContributesNothing ==
  LacksAnIgnoredPath =>
     /\ Returned => /\ first.exitCode = 0
                    /\ returned = first.returned
                    /\ alteredPaths = first.altered
     /\ pc = "exit" => exitCode = first.exitCode

\* the first run had an ignored .go file or test file next to a change that
\* counts, the second run lacks the ignored one
C6_Witness ==
  /\ LacksAnIgnoredPath
  /\ pc = "exit"
  /\ exitCode = 0
  /\ returned # {}
  /\ \E file \in first.diffs \ diffs : HasSuffix(file, goSuffix)

(***************************************************************************)
(* C7: apart from ".", no directory with a path element that starts with   *)
(* "." or "_" is ever in the altered set or the impacted set.  The code    *)
(* looks at the basename of the changed file only, so a regular source     *)
(* file in such a directory puts the directory into both sets.             *)
(***************************************************************************)
C7_NoHiddenDirectory ==
  /\ \A dir \in impactedPaths \cup alteredPaths \cup returned :
        dir = dot \/ ~HiddenDir(dir)
  /\ (diffs = {Join(<<GIT, CONFIG>>)} /\ Returned) => returned = {}

(***************************************************************************)
(* C8: the directories printed are in ascending lexicographic (bytewise)   *)
(* order and are the members of the final impacted set, each exactly once. *)
(***************************************************************************)
\* the paths of the printed lines "./path"
Printed ==
  LET lines == SelectSeq(stdout, LAMBDA line : HasPrefix(line, dot \o sep))
  IN [i \in 1..Len(lines) |-> SubSeq(lines[i], 3, Len(lines[i]))]

\* a is before b bytewise: they differ first at k, where a has ended or has the smaller byte
Before(a, b) ==
  \E k \in 1..Len(b) :
     /\ k <= Len(a) + 1
     /\ SubSeq(a, 1, k - 1) = SubSeq(b, 1, k - 1)
     /\ (k = Len(a) + 1 \/ Ord[a[k]] < Ord[b[k]])

C8_OutputSortedAndExact ==
  (pc = "exit" /\ exitCode = 0) =>
     /\ \A i, j \in 1..Len(Printed) : i < j => Before(Printed[i], Printed[j])
     /\ {Printed[i] : i \in 1..Len(Printed)} = impactedPaths
     /\ Len(Printed) = Cardinality(impactedPaths)
     /\ Len(stdout) = Len(Printed)

\* two directories were printed, one a prefix of the other
C8_Witness ==
  /\ pc = "exit"
  /\ exitCode = 0
  /\ Len(Printed) >= 2
  /\ \E i \in 1..(Len(Printed) - 1) : HasPrefix(Printed[i + 1], Printed[i] \o sep)

(***************************************************************************)
(* C9: a second run with the same change set, the same file system and    *)
(* the same packages in any order prints the same impacted list and exits  *)
(* with the same status as the first, whatever order the range loops take. *)
(***************************************************************************)
SameInputsAgain == run = "second" /\ diffs = first.diffs

PrintedOf(out) ==
  SelectSeq(out, LAMBDA line : HasPrefix(line, dot \o sep))

C9_Deterministic ==
  (SameInputsAgain /\ pc = "exit") =>
     /\ exitCode = first.exitCode
     /\ PrintedOf(stdout) = PrintedOf(first.stdout)

\* both runs printed two directories, from two changed paths and two packages
C9_Witness ==
  /\ SameInputsAgain
  /\ pc = "exit"
  /\ exitCode = 0
  /\ Cardinality(diffs) >= 2
  /\ Len(packages) >= 2
  /\ Len(stdout) >= 2

(***************************************************************************)
(* C10: after the post-pass the impacted set holds exactly the returned    *)
(* directories that can be listed and have an entry ending in ".go".       *)
(***************************************************************************)
Buildable(dir) ==
  /\ dir \in DOMAIN fs
  /\ \E name \in fs[dir] : HasSuffix(name, goSuffix)

C10_PostPassKeepsBuildable ==
  PostPassDone => impactedPaths = {dir \in returned : Buildable(dir)}

\* one directory was kept, one that cannot be listed was removed
C10_Witness ==
  /\ PostPassDone
  /\ impactedPaths # {}
  /\ \E dir \in returned \ impactedPaths : dir \notin DOMAIN fs

\* a directory without a .go entry was removed
C10_WitnessNoGoFile ==
  /\ PostPassDone
  /\ \E dir \in returned \ impactedPaths : dir \in DOMAIN fs

(***************************************************************************)
(* Vocabulary of the properties about the package pass and the fixtures.   *)
(***************************************************************************)
\* the three dependency lists of a package in the order the code examines them
DepsInOrder(pkg) == pkg.Deps \o pkg.TestImports \o pkg.XTestImports

\* the package pass reaches an import path of pkg that cannot be resolved:
\* the package is not altered and no dependency before it is altered
ReachesUnresolvable(pkg) ==
  /\ Rel(projectDir, pkg.Dir) \notin alteredPaths
  /\ \E k \in 1..Len(DepsInOrder(pkg)) :
        /\ DepsInOrder(pkg)[k] \notin DOMAIN ImportDirs
        /\ \A j \in 1..(k - 1) :
              /\ DepsInOrder(pkg)[j] \in DOMAIN ImportDirs
              /\ Rel(projectDir, ImportDirs[DepsInOrder(pkg)[j]]) \notin alteredPaths

\* the directory made of the first n elements, the root for n = 0
PrefixDir(elems, n) == IF n = 0 THEN dot ELSE Join(SubSeq(elems, 1, n))

\* the positions of the testdata elements of the directory of a file
TestdataAt(file) ==
  {k \in 1..Len(Split(Dir(file))) : Split(Dir(file))[k] = TESTDATA}

\* the directories above a testdata directory the file lies in, the root included
AncestorsOfTestdata(file) ==
  {PrefixDir(Split(Dir(file)), n) : n \in {m \in 0..Len(Split(Dir(file))) :
                                             \E k \in TestdataAt(file) : m < k}}

\* file is the changed path the step classifies
Classifies(file) ==
  /\ pc = "pathsImpacted"
  /\ file \in todo
  /\ todo' = todo \ {file}

(***************************************************************************)
(* C13: when the package pass reaches an import path that cannot be        *)
(* resolved, the run ends in that step with exit status 1, and a run that  *)
(* ended with status 1 has printed no impacted directory.                  *)
(***************************************************************************)
C13_UnresolvedImportIsFatal ==
  /\ [](exitCode = 1 => (pc = "exit" /\ PrintedOf(stdout) = <<>>))
  /\ [][(/\ pc = "pathsImpacted"
         /\ todo = {}
         /\ pkgIdx <= Len(packages)
         /\ ReachesUnresolvable(packages[pkgIdx]))
        => (/\ pc' = "exit"
            /\ exitCode' = 1
            /\ PrintedOf(stdout') = <<>>
            /\ stdout'[Len(stdout')] \notin {dot \o sep \o dir : dir \in impactedPaths})]_vars

\* the run was ended by an import path while directories were already impacted
C13_Witness ==
  /\ pc = "exit"
  /\ exitCode = 1
  /\ impactedPaths # {}
  /\ pkgIdx > 1
  /\ HasPrefix(stdout[Len(stdout)], <<"c", "a", "n", "n", "o", "t">>)

(***************************************************************************)
(* C14: a directory that cannot be listed never ends the run: no error of  *)
(* ioutil.ReadDir is printed and the run does not exit with status 1       *)
(* because of it.  hasTestFiles calls check on the error of ReadDir, so a  *)
(* fixture rule that meets such a directory ends the run with status 1.    *)
(***************************************************************************)
C14_ListingFailureNeverFatal ==
  \A i \in 1..Len(stdout) : ~HasPrefix(stdout[i], <<"o", "p", "e", "n", " ">>)

(***************************************************************************)
(* C15: the directory of every changed path whose basename ends in .go or  *)
(* _test.go and does not start with "." or "_" is in the returned set.     *)
(* A regular source file below a testdata directory is handled by the      *)
(* fixture cases, which do not add its directory.                          *)
(***************************************************************************)
C15_GoFileDirectoryImpacted ==
  Returned =>
    \A file \in diffs :
       (IsTestFile(file) \/ IsSourceFile(file)) => Dir(file) \in returned

(***************************************************************************)
(* C16: for a changed file inside a testdata directory, every directory    *)
(* above that testdata directory that has a test file is in the returned   *)
(* set.  The code never adds the root in the walk, and does not treat a    *)
(* file directly in a testdata directory as a fixture.                     *)
(***************************************************************************)
C16_TestedAncestorsImpacted ==
  Returned =>
    \A file \in diffs : \A dir \in AncestorsOfTestdata(file) :
       DirHasTestFile(dir) => dir \in returned

(***************************************************************************)
(* C17: classification takes the first matching case only.  A file with a  *)
(* "."/"_" basename changes nothing, whatever else it matches; a test file *)
(* adds its own directory to the impacted set and nothing else, lists no   *)
(* directory (so it cannot end the run), also below a testdata directory;  *)
(* a file handled by a testdata case is not also handled as a source file. *)
(***************************************************************************)
HandledAsFixture(file) ==
  /\ ~StartsWithDotOrUnderscore(Base(file))
  /\ ~HasSuffix(Base(file), testSuffix)
  /\ \E k \in TestdataAt(file) : k < Len(Split(Dir(file)))

C18_NoAlteredFixtureDirectory ==
  \A dir \in alteredPaths :
     \A k \in 1..Len(Split(dir)) : Split(dir)[k] # TESTDATA

(***************************************************************************)
(* C19: the walk of a fixture path below the root visits every directory   *)
(* from the one that holds the testdata directory up to, not including,    *)
(* the root, and adds exactly the visited directories that have a test     *)
(* file.  A visited directory that cannot be listed ends the run (C14), so *)
(* the directories above it are not visited and not added.                 *)
(***************************************************************************)
FirstTestdataAt(file) ==
  CHOOSE k \in TestdataAt(file) : \A j \in TestdataAt(file) : k <= j

\* the fixture case with the walk applies: the first testdata is not at the root
WalkApplies(file) ==
  /\ HandledAsFixture(file)
  /\ FirstTestdataAt(file) >= 2

\* the directories from the holder of the first testdata directory up to the root
WalkDirs(file) ==
  {PrefixDir(Split(Dir(file)), n) : n \in 1..(FirstTestdataAt(file) - 1)}

C19_WalkVisitsEveryAncestor ==
  [][\A file \in todo : (Classifies(file) /\ WalkApplies(file)) =>
        impactedPaths' = impactedPaths \cup {dir \in WalkDirs(file) : DirHasTestFile(dir)}]_vars

(***************************************************************************)
(* C20: for a path below two testdata directories the walk starts at the   *)
(* holder of the first one: only directories above the first testdata are  *)
(* added, and the directories between the two testdata directories are     *)
(* not listed, so they are not added when they have a test file and do not *)
(* end the run when they cannot be listed.                                 *)
(***************************************************************************)
Nested(file) == WalkApplies(file) /\ Cardinality(TestdataAt(file)) >= 2

\* the directories from the first testdata directory down to the holder of the last
BetweenDirs(file) ==
  {PrefixDir(Split(Dir(file)), n) :
     n \in {m \in FirstTestdataAt(file)..Len(Split(Dir(file))) :
              \E k \in TestdataAt(file) : m < k}}

GitDiffCommand(commitPattern) == [cmd |-> "diff", arg |-> commitPattern]
GitStatusCommand == [cmd |-> "status", arg |-> <<>>]

\* shell("git", "diff", "--name-only", commitPattern): git fails on a revision
\* it does not know, and shell makes every failure fatal
ShellGitDiff(commitPattern, r) ==
  IF commitPattern = BadRevision THEN [err |-> TRUE, output |-> <<>>]
  ELSE IF commitPattern = HEAD THEN [err |-> FALSE, output |-> Unlines(r.diffHead)]
  ELSE [err |-> FALSE, output |-> Unlines(r.diffOther)]

\* shell("git", "status", "--short", "--untracked-files=all", "--porcelain")
ShellGitStatus(r) == Unlines(r.status)

\* gitDiff: every non-empty line of the output is a file name
gitDiff(commitPattern, r) ==
  LET sh == ShellGitDiff(commitPattern, r)
      lines == SplitLines(sh.output)
  IN [err |-> sh.err,
      val |-> {lines[i] : i \in {j \in 1..Len(lines) : Len(lines[j]) # 0}}]

\* gitUntracked: the lines that start with "??", from their fourth character
gitUntracked(r) ==
  LET lines == SplitLines(ShellGitStatus(r))
      kept == {j \in 1..Len(lines) :
                 /\ Len(lines[j]) # 0
                 /\ SubSeq(lines[j], 1, 2) = <<"?", "?">>}
  IN {SubSeq(lines[i], 4, Len(lines[i])) : i \in kept}

\* StringSet.Merge
Merge(set, other) == set \cup other

\* the comparison is trimmed and an empty one stays empty
CommitPatternTrimmedOnly(flag) == TrimSpace(flag)

\* the comparison gitAllDiffs works with: trimmed, HEAD when empty
CommitPattern(flag) ==
  IF TrimSpace(flag) = <<>> THEN HEAD ELSE TrimSpace(flag)

IsSpacedComparison(cc) == ContainsAny(cc, {" "})

\* strings.ContainsAny(commitComparison, " .")
IsExplicitComparison(cc) == ContainsAny(cc, {" ", "."})

\* gitAllDiffs up to the decision about untracked files
GitDiff ==
  /\ gitPc = "gitAllDiffs"
  /\ LET cc == CommitPattern(commitComparison)
         d == gitDiff(cc, repo)
     IN /\ shellCalls' = Append(shellCalls, GitDiffCommand(cc))
        /\ IF d.err
           THEN /\ gitPc' = "exit"
                /\ gitDiffs' = gitDiffs
           ELSE /\ gitDiffs' = d.val
                /\ gitPc' = IF IsExplicitComparison(cc) THEN "returned"
                                                        ELSE "untracked"
  /\ UNCHANGED <<commitComparison, repo>>
  /\ UNCHANGED slimVars

\* diffs.Merge(gitUntracked()); return diffs
GitUntracked ==
  /\ gitPc = "untracked"
  /\ shellCalls' = Append(shellCalls, GitStatusCommand)
  /\ gitDiffs' = Merge(gitDiffs, gitUntracked(repo))
  /\ gitPc' = "returned"
  /\ UNCHANGED <<commitComparison, repo>>
  /\ UNCHANGED slimVars

InitGit ==
  /\ commitComparison \in Comparisons
  /\ repo \in Repos
  /\ gitDiffs = {}
  /\ shellCalls = <<>>
  /\ gitPc = "gitAllDiffs"
  /\ diffs = {}
  /\ packages = <<>>
  /\ fs = FSFull
  /\ todo = {}
  /\ impactedPaths = {}
  /\ alteredPaths = {}
  /\ pkgIdx = 1
  /\ returned = {}
  /\ rtodo = {}
  /\ stdout = <<>>
  /\ exitCode = -1
  /\ pc = "main"
  /\ run = "first"
  /\ first = NoRun

NextGit ==
  \/ GitDiff
  \/ GitUntracked

SpecGit == InitGit /\ [][NextGit]_vars

(***************************************************************************)
(* Vocabulary of the claims about the change set.                          *)
(***************************************************************************)
Trimmed(flag) == TrimSpace(flag)

\* one revision name: not empty, one word, no ".." range operator
NamesSingleRevision(flag) ==
  /\ Trimmed(flag) # <<>>
  /\ \A i \in 1..Len(Trimmed(flag)) : Trimmed(flag)[i] \notin Whitespace
  /\ ~ Contains(Trimmed(flag), <<".", ".">>)

\* the paths git reports for the diff of the comparison
DiffReported(flag) ==
  LET names == IF Trimmed(flag) \in {<<>>, HEAD} THEN repo.diffHead
                                                  ELSE repo.diffOther
  IN {names[i] : i \in 1..Len(names)}

\* the untracked files of the working tree
UntrackedFiles ==
  {SubSeq(repo.status[i], 4, Len(repo.status[i])) :
     i \in {j \in 1..Len(repo.status) :
              repo.status[j][1] = "?" /\ repo.status[j][2] = "?"}}

StatusConsulted == \E i \in 1..Len(shellCalls) : shellCalls[i].cmd = "status"

\* C11: for every comparison that names a single revision, the set
\* gitAllDiffs returns is the diff against that revision united with the
\* untracked files.
C11_SingleRevisionIncludesUntracked ==
  (gitPc = "returned" /\ NamesSingleRevision(commitComparison))
    => gitDiffs = DiffReported(commitComparison) \cup UntrackedFiles

Phase ==
  IF pc = "main" THEN 3
  ELSE IF pc = "pathsImpacted" THEN 2
  ELSE IF pc = "removePaths" THEN 1
  ELSE 0

Iterations ==
  IF pc = "pathsImpacted" THEN Cardinality(todo) + (Len(packages) + 1 - pkgIdx)
  ELSE IF pc = "removePaths" THEN Cardinality(rtodo)
  ELSE 0

Progress ==
  \/ Phase' < Phase
  \/ Phase' = Phase /\ Iterations' < Iterations

OncePerInput ==
  pc # "main" =>
  /\ todo' \subseteq todo
  /\ Cardinality(todo \ todo') <= 1
  /\ pkgIdx' \in {pkgIdx, pkgIdx + 1}
  /\ ~ (todo' # todo /\ pkgIdx' # pkgIdx)

\* C21: for every change set of project-relative paths and every package
\* list the run terminates: every step takes one changed path or one package
\* and never takes it again, every step brings the run nearer to its end, and
\* the run ends with the printed result or with a fatal exit.
C21_RunTerminates ==
  /\ [][Progress /\ OncePerInput]_vars
  /\ <>(pc = "exit" /\ exitCode \in {0, 1})

\* a run has ended normally after a walk over two ancestors of a testdata
\* directory and after two packages
C21_Witness ==
  /\ pc = "exit"
  /\ exitCode = 0
  /\ Join(<<A, B, TESTDATA, D, X_TXT>>) \in diffs
  /\ Join(<<A, B>>) \in DOMAIN fs
  /\ Len(packages) = 2
  /\ stdout # <<>>


(***************************************************************************)
(* The short-circuit of the package pass.                                  *)
(***************************************************************************)
\* the step examines the package pkg
Examines(pkg) ==
  /\ pc = "pathsImpacted"
  /\ todo = {}
  /\ pkgIdx <= Len(packages)
  /\ pkg = packages[pkgIdx]

HasUnresolvable(pkg) ==
  \E k \in 1..Len(DepsInOrder(pkg)) : DepsInOrder(pkg)[k] \notin DOMAIN ImportDirs

\* every import path of pkg that cannot be resolved is skipped: the package
\* itself is altered, or an altered dependency comes before it
SkipsUnresolvable(pkg) == HasUnresolvable(pkg) /\ ~ ReachesUnresolvable(pkg)

\* C22: the package pass short-circuits: when the package's own directory is
\* altered, or an altered dependency comes first in the order regular,
\* test-only, external-test, an import path that cannot be resolved is not
\* resolved and does not end the run: the step prints nothing and goes on
\* to the next package.
C22_ShortCircuitSkipsUnresolvable ==
  [][\A pkg \in {PackageUniverse[i] : i \in 1..Len(PackageUniverse)} :
       (Examines(pkg) /\ SkipsUnresolvable(pkg))
         => /\ pc' = "pathsImpacted"
            /\ exitCode' = exitCode
            /\ stdout' = stdout
            /\ pkgIdx' = pkgIdx + 1]_vars

\* a run ended normally although an altered dependency of one of its packages
\* is followed, in a later list, by an import path that cannot be resolved
C22_Witness ==
  /\ pc = "exit"
  /\ exitCode = 0
  /\ Join(<<A, X_GO>>) \in diffs
  /\ \E i \in 1..Len(packages) :
        /\ packages[i].TestImports = <<IP_A>>
        /\ packages[i].XTestImports = <<IP_MISSING>>


(***************************************************************************)
(* What the package pass adds.                                             *)
(***************************************************************************)
\* the step examines a package
ExaminesPackage ==
  /\ pc = "pathsImpacted"
  /\ todo = {}
  /\ pkgIdx <= Len(packages)

IsRegularSourceFile(file) == IsSourceFile(file) /\ TestdataAt(file) = {}

Exists(dir) == dir \in DOMAIN fs

\* C24: a changed test file or regular source file is classified without a
\* look at the file system: its directory is added to the impacted set, and
\* for a regular source file to the altered set, whether the directory exists
\* or not; the post-pass takes a directory that does not exist out of the
\* final output only and never changes the altered set.
C24_DeletedDirectoryClassifiedAlike ==
  /\ [][\A file \in diffs :
          /\ (Classifies(file) /\ IsTestFile(file))
               => /\ impactedPaths' = impactedPaths \cup {Dir(file)}
                  /\ alteredPaths' = alteredPaths
                  /\ pc' = pc
          /\ (Classifies(file) /\ IsRegularSourceFile(file))
               => /\ impactedPaths' = impactedPaths \cup {Dir(file)}
                  /\ alteredPaths' = alteredPaths \cup {Dir(file)}
                  /\ pc' = pc]_vars
  /\ [][pc = "removePaths" => alteredPaths' = alteredPaths]_vars
  /\ [](PostPassDone =>
          \A file \in diffs :
             (IsRegularSourceFile(file) /\ ~ Exists(Dir(file)))
               => /\ Dir(file) \in returned
                  /\ Dir(file) \in alteredPaths
                  /\ Dir(file) \notin impactedPaths)

\* the post-pass has dropped the directory of a changed source file that was
\* deleted, and the altered set still holds it
C24_Witness ==
  /\ PostPassDone
  /\ Join(<<A, X_GO>>) \in diffs
  /\ ~ Exists(A)
  /\ A \in returned
  /\ A \in alteredPaths
  /\ A \notin impactedPaths


(***************************************************************************)
(* The test files hasTestFiles counts.                                     *)
(***************************************************************************)
\* the directory can be listed and every test file in it starts with "." or "_"
OnlyIgnoredTestFiles(dir) ==
  /\ dir \in DOMAIN fs
  /\ \E name \in fs[dir] : HasSuffix(name, testSuffix)
  /\ \A name \in fs[dir] : HasSuffix(name, testSuffix) => name[1] \in {".", "_"}

\* C25: hasTestFiles is true only for a directory with an entry that ends in
\* _test.go and starts with neither "." nor "_": every directory a fixture
\* case adds has such an entry, and a directory whose only test files are
\* prefixed ones is not added by it.
C25_IgnoredTestFilesDoNotCount ==
  [][\A file \in todo : (Classifies(file) /\ HandledAsFixture(file)) =>
        \A dir \in impactedPaths' \ impactedPaths :
           /\ DirHasTestFile(dir)
           /\ ~ OnlyIgnoredTestFiles(dir)]_vars

\* a fixture below a/b was classified: a/b holds a test file and is impacted,
\* a holds only a prefixed test file and is not
C25_Witness ==
  /\ diffs = {Join(<<A, B, TESTDATA, D, X_TXT>>)}
  /\ todo = {}
  /\ pc = "pathsImpacted"
  /\ OnlyIgnoredTestFiles(A)
  /\ impactedPaths = {Join(<<A, B>>)}


(***************************************************************************)
(* The post-pass looks at the suffix of the names only.                    *)
(***************************************************************************)
\* the directory can be listed, has an entry that ends in .go, and each such
\* entry is a test file or starts with "." or "_"
OnlyTestOrIgnoredGoFiles(dir) ==
  /\ dir \in DOMAIN fs
  /\ \E name \in fs[dir] : HasSuffix(name, goSuffix)
  /\ \A name \in fs[dir] :
        HasSuffix(name, goSuffix)
          => (HasSuffix(name, testSuffix) \/ StartsWithDotOrUnderscore(name))

\* C26: the post-pass decides by the suffix of the names alone: a returned
\* directory whose entries ending in .go are all test files or files prefixed
\* with "." or "_" stays in the final output, while classification ignores a
\* changed file with such a prefix.
C26_PostPassDecidesBySuffix ==
  /\ [](PostPassDone =>
          \A dir \in returned : OnlyTestOrIgnoredGoFiles(dir) => dir \in impactedPaths)
  /\ [][\A file \in todo :
          (Classifies(file) /\ StartsWithDotOrUnderscore(Base(file)))
            => UNCHANGED <<impactedPaths, alteredPaths>>]_vars

\* b holds only a test file with the prefix "_": the change to that file was
\* ignored, and b, impacted by another test file, stays in the final output
C26_Witness ==
  /\ PostPassDone
  /\ diffs = {Join(<<B, X_TEST>>), Join(<<B, US_G_TEST>>)}
  /\ fs[B] = {US_G_TEST}
  /\ returned = {B}
  /\ impactedPaths = {B}


(***************************************************************************)
(* Renames, and the empty comparison.                                      *)
(***************************************************************************)
Arrow == <<" ", "-", ">", " ">>

\* the renames git status reports, each as the pair of the old and the new path
Renames ==
  {<<SubSeq(repo.status[i], 4, Index(repo.status[i], Arrow)),
     SubSeq(repo.status[i], Index(repo.status[i], Arrow) + Len(Arrow) + 1,
            Len(repo.status[i]))>> :
     i \in {j \in 1..Len(repo.status) : repo.status[j][1] = "R"}}

\* C27: when git status reports a rename as "old -> new", the change set
\* holds the old path and the new path.  gitUntracked keeps only the lines
\* that start with "??", so the rename line adds neither path, and
\* "git diff --name-only" names a renamed file by its new path alone.
C27_RenameGivesBothPaths ==
  (gitPc = "returned" /\ StatusConsulted) =>
     \A rename \in Renames : rename[1] \in gitDiffs /\ rename[2] \in gitDiffs

\* C28: an empty comparison and one of white space only are handled as
\* HEAD is: git diff is run for HEAD, git status is run, and the set
\* returned is the diff against HEAD united with the untracked files, the
\* set the comparison HEAD returns.
C28_EmptyComparisonIsHead ==
  (gitPc = "returned" /\ Trimmed(commitComparison) \in {<<>>, HEAD}) =>
     /\ shellCalls = <<GitDiffCommand(HEAD), GitStatusCommand>>
     /\ gitDiffs = {repo.diffHead[i] : i \in 1..Len(repo.diffHead)} \cup UntrackedFiles

\* gitAllDiffs has returned for a comparison of one space, in a repository
\* whose diff against HEAD differs from its other diffs and that has an
\* untracked file
C28_Witness ==
  /\ gitPc = "returned"
  /\ commitComparison = <<" ">>
  /\ repo.diffHead = <<Join(<<A, X_GO>>)>>
  /\ repo.diffOther = <<Join(<<C, M_GO>>)>>
  /\ gitDiffs = {Join(<<A, X_GO>>), R_MD}

====
